---- MODULE Spec2Model ----
(***************************************************************************)
(* Model of prepayment_automation.py: load_prepayment_schedule reads a     *)
(* CSV schedule into a table plus its month columns, and                   *)
(* generate_accounting_entries turns one month of it into debit/credit     *)
(* postings.                                                               *)
(*                                                                         *)
(* Text (column labels, cells, target periods, rendered fields) is a       *)
(* sequence of characters, each a one-character string; a character that  *)
(* is not printable ASCII is written as its code point ("U+00E4") unless   *)
(* it has an escape ("\t"), and a fixed literal the code never looks into  *)
(* may be kept as one piece.  A float is the decimal number its text       *)
(* denotes, kept exactly as a mantissa n and a count d of decimals         *)
(* (n / 10^d); the double the program holds is the one nearest to it.      *)
(* Posting amounts count hundredths (the two decimals round() keeps) or    *)
(* are infinite.                                                           *)
(*                                                                         *)
(* Domain: a CSV file is a sequence of lines, a line the sequence of cells *)
(* the tokenizer makes of it, and every data line has as many cells as the *)
(* header.                                                                 *)
(* Numbers have at most nine significant digits and a magnitude below      *)
(* 10^9, so that the mantissa fits a model integer; an amount has at most  *)
(* nine decimals, and no number is below the normal range of a double.     *)
(* Columns made of True/False only and the float -0.0 are outside the      *)
(* domain.                                                                 *)
(***************************************************************************)
EXTENDS Integers, Sequences, FiniteSets, TLC

VARIABLES file, schedule_df, month_columns, load_branch, snapshot,
          target_month_str, result, first, repeated, pc

vars == <<file, schedule_df, month_columns, load_branch, snapshot,
          target_month_str, result, first, repeated, pc>>

\* Largest number of item rows of an input table.
MaxRows == 2

----------------------------------------------------------------------------
(* Characters and the str methods the code calls                           *)

AsciiDigits == {"0", "1", "2", "3", "4", "5", "6", "7", "8", "9"}

\* Fullwidth digits, standing for the decimal digits (category Nd) outside
\* ASCII: \d of strptime and int() take them.
FullwidthDigits ==
    {"U+FF10", "U+FF11", "U+FF12", "U+FF13", "U+FF14",
     "U+FF15", "U+FF16", "U+FF17", "U+FF18", "U+FF19"}

DecimalChars == AsciiDigits \cup FullwidthDigits

\* Characters str.isdigit() accepts: the decimal digits and the other digit
\* characters, of which the superscripts two and three stand here.
DigitChars == DecimalChars \cup {"U+00B2", "U+00B3"}

AsciiLetters ==
    {"A", "B", "C", "D", "E", "F", "G", "H", "I", "J", "K", "L", "M",
     "N", "O", "P", "Q", "R", "S", "T", "U", "V", "W", "X", "Y", "Z",
     "a", "b", "c", "d", "e", "f", "g", "h", "i", "j", "k", "l", "m",
     "n", "o", "p", "q", "r", "s", "t", "u", "v", "w", "x", "y", "z"}

\* Characters str.isalpha() accepts: every Unicode letter, of which a-umlaut
\* and e-acute stand here for the ones outside ASCII.
AlphaChars == AsciiLetters \cup {"U+00E4", "U+00E9"}

\* The characters the tokenizer of read_csv takes for white space when it
\* looks for blank lines.
BlankChars == {" ", "\t"}

\* isspace() of the C locale: what the numeric parsers of pandas skip
\* around a number.
CSpaceChars == {" ", "\t", "\n", "U+000B", "\f", "\r"}

\* The white space int() strips: that of the C locale and, past U+007F,
\* that of Unicode.
PySpaceChars ==
    CSpaceChars \cup
    {"U+0085", "U+00A0", "U+1680",
     "U+2000", "U+2001", "U+2002", "U+2003", "U+2004", "U+2005", "U+2006",
     "U+2007", "U+2008", "U+2009", "U+200A", "U+2028", "U+2029", "U+202F",
     "U+205F", "U+3000"}

DigitVal(c) ==
    CASE c \in {"0", "U+FF10"} -> 0 [] c \in {"1", "U+FF11"} -> 1
      [] c \in {"2", "U+FF12"} -> 2 [] c \in {"3", "U+FF13"} -> 3
      [] c \in {"4", "U+FF14"} -> 4 [] c \in {"5", "U+FF15"} -> 5
      [] c \in {"6", "U+FF16"} -> 6 [] c \in {"7", "U+FF17"} -> 7
      [] c \in {"8", "U+FF18"} -> 8 [] c \in {"9", "U+FF19"} -> 9

DigitChar(d) ==
    CASE d = 0 -> "0" [] d = 1 -> "1" [] d = 2 -> "2" [] d = 3 -> "3"
      [] d = 4 -> "4" [] d = 5 -> "5" [] d = 6 -> "6" [] d = 7 -> "7"
      [] d = 8 -> "8" [] d = 9 -> "9"

Abs(n) == IF n < 0 THEN -n ELSE n

RECURSIVE Pow10(_)
Pow10(k) == IF k <= 0 THEN 1 ELSE 10 * Pow10(k - 1)

RECURSIVE Pow2(_)
Pow2(k) == IF k <= 0 THEN 1 ELSE 2 * Pow2(k - 1)

RECURSIVE Pow5(_)
Pow5(k) == IF k <= 0 THEN 1 ELSE 5 * Pow5(k - 1)

\* 2^k modulo p
RECURSIVE ModPow2(_, _)
ModPow2(k, p) == IF k <= 0 THEN 1 % p ELSE (2 * ModPow2(k - 1, p)) % p

AllIn(s, chars) == \A i \in 1..Len(s) : s[i] \in chars

\* str.isalpha(): non-empty and every character a letter.
IsAlpha(s) == Len(s) > 0 /\ AllIn(s, AlphaChars)

\* str.isdigit(): non-empty and every character a digit.
IsDigit(s) == Len(s) > 0 /\ AllIn(s, DigitChars)

\* '-' in col
HasDash(s) == \E i \in 1..Len(s) : s[i] = "-"

\* Position of the first '-' at or after position i, Len(s)+1 when none.
RECURSIVE NextDash(_, _)
NextDash(s, i) ==
    IF i > Len(s) THEN Len(s) + 1
    ELSE IF s[i] = "-" THEN i
    ELSE NextDash(s, i + 1)

\* col.split('-'): the pieces between the separators, empty pieces kept.
RECURSIVE SplitFrom(_, _)
SplitFrom(s, i) ==
    LET d == NextDash(s, i) IN
    IF d > Len(s) THEN << SubSeq(s, i, Len(s)) >>
    ELSE << SubSeq(s, i, d - 1) >> \o SplitFrom(s, d + 1)

SplitDash(s) == SplitFrom(s, 1)

\* Value of a string of decimal digits.
RECURSIVE DigitsValue(_)
DigitsValue(s) ==
    IF Len(s) = 0 THEN 0
    ELSE 10 * DigitsValue(SubSeq(s, 1, Len(s) - 1)) + DigitVal(s[Len(s)])

\* str() of a non-negative integer.
RECURSIVE NatToStr(_)
NatToStr(n) ==
    IF n < 10 THEN << DigitChar(n) >>
    ELSE NatToStr(n \div 10) \o << DigitChar(n % 10) >>

\* str(int(x))
IntToStr(n) == IF n < 0 THEN << "-" >> \o NatToStr(-n) ELSE NatToStr(n)

\* Zero-padded two-digit field (%d, %m, %y and the exponent of a float).
Pad2(n) == << DigitChar((n \div 10) % 10), DigitChar(n % 10) >>

\* The text without the characters of the set at its two ends.
RECURSIVE Strip(_, _)
Strip(s, chars) ==
    IF Len(s) = 0 THEN s
    ELSE IF s[1] \in chars THEN Strip(Tail(s), chars)
    ELSE IF s[Len(s)] \in chars THEN Strip(SubSeq(s, 1, Len(s) - 1), chars)
    ELSE s

HasSign(s) == Len(s) > 0 /\ s[1] \in {"+", "-"}

\* The text after its sign, if it has one.
Unsigned(s) == IF HasSign(s) THEN Tail(s) ELSE s

SignOf(s) == IF Len(s) > 0 /\ s[1] = "-" THEN -1 ELSE 1

\* The text without its underscores.
NotUnderscore(c) == c # "_"
DropUnderscores(s) == SelectSeq(s, NotUnderscore)

\* The body of an int() literal: decimal digits, with single underscores
\* between digits only.
IntBodyOK(b) ==
    /\ Len(b) > 0
    /\ AllIn(b, DecimalChars \cup {"_"})
    /\ b[1] # "_"
    /\ b[Len(b)] # "_"
    /\ \A i \in 1..(Len(b) - 1) : ~(b[i] = "_" /\ b[i + 1] = "_")

\* int(s) of a string returns: white space around, a sign, then the body.
IntLiteralOK(s) == IntBodyOK(Unsigned(Strip(s, PySpaceChars)))

IntLiteralValue(s) ==
    SignOf(Strip(s, PySpaceChars))
        * DigitsValue(DropUnderscores(Unsigned(Strip(s, PySpaceChars))))

----------------------------------------------------------------------------
(* Cell values of the DataFrame                                            *)

StrVal(s) == [t |-> "str", s |-> s, n |-> 0, d |-> 0]
\* The float n / 10^d, normalised: d is as small as it can be.
RECURSIVE NumVal(_, _)
NumVal(n, d) ==
    IF d > 0 /\ n % 10 = 0 THEN NumVal(n \div 10, d - 1)
    ELSE [t |-> "float", s |-> << >>, n |-> n, d |-> d]
\* A whole number of an int64 or of the nullable Int64 column.
IntVal(i) == [t |-> "int", s |-> << >>, n |-> i, d |-> 0]
\* The floats inf (sign 1) and -inf (sign -1).
InfVal(sign) == [t |-> "inf", s |-> << >>, n |-> sign, d |-> 0]
NaN == [t |-> "nan", s |-> << >>, n |-> 0, d |-> 0]
NA == [t |-> "NA", s |-> << >>, n |-> 0, d |-> 0]

\* Labels and literals of the source.
Items == << "I", "t", "e", "m", "s" >>
InvoiceNumber ==
    << "I", "n", "v", "o", "i", "c", "e", " ", "n", "u", "m", "b", "e", "r" >>
InvoiceAmount ==
    << "I", "n", "v", "o", "i", "c", "e", " ", "a", "m", "o", "u", "n", "t" >>
PrepaymentItem ==
    << "P", "r", "e", "p", "a", "y", "m", "e", "n", "t", " ", "I", "t", "e", "m" >>
Reference == << "R", "e", "f", "e", "r", "e", "n", "c", "e" >>
TotalAmount ==
    << "T", "o", "t", "a", "l", " ", "A", "m", "o", "u", "n", "t" >>
Balance == << "B", "a", "l", "a", "n", "c", "e" >>
NotAvailable == << "N", "/", "A" >>
GenericItem ==
    << "G", "e", "n", "e", "r", "i", "c", " ", "I", "t", "e", "m" >>
UnknownItem ==
    << "U", "n", "k", "n", "o", "w", "n", " ", "I", "t", "e", "m" >>
DescriptionPrefix == << "Prepayment amortisation for " >>

\* Cells read_csv reads as missing: its default na_values.
NaStrings ==
    { << >>,
      << "#", "N", "/", "A" >>,
      << "#", "N", "/", "A", " ", "N", "/", "A" >>,
      << "#", "N", "A" >>,
      << "-", "1", ".", "#", "I", "N", "D" >>,
      << "-", "1", ".", "#", "Q", "N", "A", "N" >>,
      << "-", "N", "a", "N" >>,
      << "-", "n", "a", "n" >>,
      << "1", ".", "#", "I", "N", "D" >>,
      << "1", ".", "#", "Q", "N", "A", "N" >>,
      << "<", "N", "A", ">" >>,
      << "N", "/", "A" >>,
      << "N", "A" >>,
      << "N", "U", "L", "L" >>,
      << "N", "a", "N" >>,
      << "N", "o", "n", "e" >>,
      << "n", "/", "a" >>,
      << "n", "a", "n" >>,
      << "n", "u", "l", "l" >> }

IsNaText(cell) == cell \in NaStrings

\* Position of the first character of the set, 0 when none.
FirstOf(s, chars) ==
    IF \E i \in 1..Len(s) : s[i] \in chars
    THEN CHOOSE i \in 1..Len(s) :
             s[i] \in chars /\ \A j \in 1..(i - 1) : s[j] \notin chars
    ELSE 0

NotDot(c) == c # "."

\* The part of a number before its exponent and the exponent's text.
Mantissa(u) ==
    IF FirstOf(u, {"e", "E"}) = 0 THEN u
    ELSE SubSeq(u, 1, FirstOf(u, {"e", "E"}) - 1)
ExponentText(u) ==
    IF FirstOf(u, {"e", "E"}) = 0 THEN << "0" >>
    ELSE SubSeq(u, FirstOf(u, {"e", "E"}) + 1, Len(u))

\* Digits with at most one '.', at least one digit.
MantissaOK(m) ==
    /\ AllIn(m, AsciiDigits \cup {"."})
    /\ Cardinality({ i \in 1..Len(m) : m[i] = "." }) <= 1
    /\ \E i \in 1..Len(m) : m[i] \in AsciiDigits

ExponentOK(x) == Len(Unsigned(x)) > 0 /\ AllIn(Unsigned(x), AsciiDigits)

\* Decimal text as the parsers of read_csv and to_numeric read it: white
\* space around, a sign, digits with an optional '.', an optional exponent.
IsDecimal(s) ==
    LET u == Unsigned(Strip(s, CSpaceChars))
    IN  MantissaOK(Mantissa(u)) /\ ExponentOK(ExponentText(u))

\* Text of an int64: white space around, a sign, digits.
IsIntText(s) ==
    LET u == Unsigned(Strip(s, CSpaceChars))
    IN  Len(u) > 0 /\ AllIn(u, AsciiDigits)

Lower(c) ==
    CASE c = "I" -> "i" [] c = "N" -> "n" [] c = "F" -> "f" [] c = "T" -> "t"
      [] c = "Y" -> "y" [] OTHER -> c

\* 'inf' and 'infinity' with an optional sign, in any casing.
IsInfText(s) ==
    [i \in 1..Len(Unsigned(s)) |-> Lower(Unsigned(s)[i])]
        \in { << "i", "n", "f" >>,
              << "i", "n", "f", "i", "n", "i", "t", "y" >> }

IsNumericText(s) == IsDecimal(s) \/ IsInfText(s)

\* The float a decimal text denotes.
DecimalValue(s) ==
    LET t == Strip(s, CSpaceChars)
        u == Unsigned(t)
        m == Mantissa(u)
        x == ExponentText(u)
        dot == FirstOf(m, {"."})
        frac == IF dot = 0 THEN 0 ELSE Len(m) - dot
        n0 == SignOf(t) * DigitsValue(SelectSeq(m, NotDot))
        e == SignOf(x) * DigitsValue(Unsigned(x))
    IN  IF e > frac THEN NumVal(n0 * Pow10(e - frac), 0)
        ELSE NumVal(n0, frac - e)

\* The float a numeric text denotes.
FloatValue(s) ==
    IF IsInfText(s) THEN InfVal(SignOf(s)) ELSE DecimalValue(s)

IntTextValue(s) ==
    IntVal(SignOf(Strip(s, CSpaceChars))
               * DigitsValue(Unsigned(Strip(s, CSpaceChars))))

\* pd.to_numeric(x, errors='coerce') on one value.
ToNumeric(v) ==
    IF v.t = "str"
    THEN IF IsNumericText(v.s) THEN FloatValue(v.s) ELSE NaN
    ELSE v

\* .fillna(0)
FillNa0(v) == IF v.t = "nan" THEN NumVal(0, 0) ELSE v

\* astype('Int64') takes whole numbers, NaN becomes <NA>; a float with a
\* fraction and an infinite one raise TypeError.
IsWhole(v) == v.t \in {"nan", "int"} \/ (v.t = "float" /\ v.d = 0)
ToInt64(v) == IF v.t = "nan" THEN NA ELSE IntVal(v.n)

\* The digits of a / 10^d in fixed notation, d decimals and '.0' for none.
FixedText(a, d) ==
    NatToStr(a \div Pow10(d)) \o << "." >>
    \o (IF d = 0 THEN << "0" >>
        ELSE [i \in 1..d |-> DigitChar((a \div Pow10(d - i)) % 10)])

\* The exponent in the repr() of a float: two digits at least.
ReprExponent(e) == IF e < 10 THEN << "0" >> \o NatToStr(e) ELSE NatToStr(e)

\* repr() of a finite float: the shortest text that reads back, in fixed
\* notation from 1e-4 on and in scientific notation below.
FloatRepr(n, d) ==
    LET a == Abs(n)
        sign == IF n < 0 THEN << "-" >> ELSE << >>
        digits == NatToStr(a)
        k == Len(digits)
    IN  IF d - k + 1 <= 4 THEN sign \o FixedText(a, d)
        ELSE sign \o << digits[1] >>
             \o (IF k > 1 THEN << "." >> \o Tail(digits) ELSE << >>)
             \o << "e", "-" >> \o ReprExponent(d - k + 1)

\* str() of a cell value, as an f-string renders it.
ValueText(v) ==
    CASE v.t = "str" -> v.s
      [] v.t = "int" -> IntToStr(v.n)
      [] v.t = "float" -> FloatRepr(v.n, v.d)
      [] v.t = "inf" -> IF v.n < 0 THEN << "-", "i", "n", "f" >>
                        ELSE << "i", "n", "f" >>
      [] v.t = "nan" -> << "n", "a", "n" >>
      [] v.t = "NA" -> << "<", "N", "A", ">" >>

----------------------------------------------------------------------------
(* DataFrame helpers                                                       *)

NoneDF == [isNone |-> TRUE, columns |-> << >>, rows |-> << >>]
NoneCols == [isNone |-> TRUE, list |-> << >>]

HasColumn(df, label) == \E j \in 1..Len(df.columns) : df.columns[j] = label

ColIndex(df, label) ==
    CHOOSE j \in 1..Len(df.columns) :
        df.columns[j] = label /\ \A k \in 1..(j - 1) : df.columns[k] # label

\* row.get(label, default) for the reference and the target month, labels
\* a loaded frame has on one column at most: read_csv gives every label
\* once and the loader fails on two columns renamed to 'Reference'.
RowGet(df, i, label, default) ==
    IF HasColumn(df, label) THEN df.rows[i][ColIndex(df, label)] ELSE default

\* df[label] = value for a column the frame does not have yet.
AddColumn(df, label, value) ==
    [df EXCEPT !.columns = Append(df.columns, label),
               !.rows = [i \in 1..Len(df.rows) |-> Append(df.rows[i], value)]]

----------------------------------------------------------------------------
(* load_prepayment_schedule                                                *)

\* The month-column test of the list comprehension.
IsMonthColumn(col) ==
    /\ Len(col) = 6
    /\ HasDash(col)
    /\ IsAlpha(SplitDash(col)[1])
    /\ IsDigit(SplitDash(col)[2])

\* Mutant: the ValueError raised for missing month columns is not caught.
LoadFailure_Reraises(branch) ==
    [schedule_df |-> NoneDF, month_columns |-> NoneCols,
     branch |-> branch, raised |-> (branch = "ValueError")]

\* What an except clause of the loader returns; branch names the clause.
LoadFailure(branch) ==
    [schedule_df |-> NoneDF, month_columns |-> NoneCols,
     branch |-> branch, raised |-> FALSE]

\* A line read_csv skips (skip_blank_lines): empty or made of spaces.
IsBlankLine(l) == Len(l) = 1 /\ AllIn(l[1], BlankChars)
NotBlankLine(l) == ~IsBlankLine(l)

\* skiprows=2: the lines after the first two, the blank ones left out.  The
\* first of them is the header, the others are the data.
TableLines(f) == SelectSeq(SubSeq(f.lines, 3, Len(f.lines)), NotBlankLine)

\* The label of an empty header cell.
UnnamedLabel(j) ==
    << "U", "n", "n", "a", "m", "e", "d", ":", " " >> \o NatToStr(j - 1)

NameColumns(h) ==
    [j \in 1..Len(h) |-> IF h[j] = << >> THEN UnnamedLabel(j) ELSE h[j]]

\* The dict of label counts: counts.get(col, 0) and counts[col] = v.
NoCounts == [x \in {} |-> 0]
CountOf(counts, col) == IF col \in DOMAIN counts THEN counts[col] ELSE 0
SetCount(counts, col, v) ==
    [x \in DOMAIN counts \cup {col} |-> IF x = col THEN v ELSE counts[x]]


\* The loop that looks for a free name for a label seen cur times before:
\* old.1, old.2, ... until one is neither in the header nor counted.
RECURSIVE MangleLoop(_, _, _, _, _)
MangleLoop(old, col, cur, h, counts) ==
    IF cur > 0
    THEN LET bumped == SetCount(counts, old, cur + 1)
             next == old \o << "." >> \o NatToStr(cur)
         IN  IF \E k \in 1..Len(h) : h[k] = next
             THEN MangleLoop(old, next, cur + 1, h, bumped)
             ELSE MangleLoop(old, next, CountOf(bumped, next), h, bumped)
    ELSE [col |-> col, cur |-> cur, counts |-> counts]

\* The positions of the header cells that are empty (unnamed) or not.
RECURSIVE ColumnsWhere(_, _, _)
ColumnsWhere(raw, i, unnamed) ==
    IF i > Len(raw) THEN << >>
    ELSE (IF (raw[i] = << >>) = unnamed THEN << i >> ELSE << >>)
         \o ColumnsWhere(raw, i + 1, unnamed)

\* The named columns are gone through before the unnamed ones.
LoopOrder(raw) == ColumnsWhere(raw, 1, FALSE) \o ColumnsWhere(raw, 1, TRUE)

\* The pass that makes the labels unique, from position k of the order on;
\* the header is updated as it goes.
RECURSIVE DedupFrom(_, _, _, _)
DedupFrom(order, k, h, counts) ==
    IF k > Len(order) THEN h
    ELSE LET i == order[k]
             r == MangleLoop(h[i], h[i], CountOf(counts, h[i]), h, counts)
         IN  DedupFrom(order, k + 1, [h EXCEPT ![i] = r.col],
                       SetCount(r.counts, r.col, r.cur + 1))

\* The column labels read_csv makes of the header line.
DedupNames(raw) == DedupFrom(LoopOrder(raw), 1, NameColumns(raw), NoCounts)

\* The dtype read_csv infers for a column from its cells.
ColumnKind(cells) ==
    LET present == { i \in 1..Len(cells) : ~IsNaText(cells[i]) }
    IN  IF \E i \in present : ~IsNumericText(cells[i]) THEN "object"
        ELSE IF /\ Len(cells) > 0
                /\ \A i \in 1..Len(cells) : i \in present /\ IsIntText(cells[i])
             THEN "int64"
        ELSE "float64"

\* The value read_csv gives a cell of a column of the kind.
ReadCell(kind, cell) ==
    IF IsNaText(cell) THEN NaN
    ELSE CASE kind = "int64" -> IntTextValue(cell)
           [] kind = "float64" -> FloatValue(cell)
           [] OTHER -> StrVal(cell)

\* pd.read_csv(file_path, skiprows=2)
ReadCsv(f) ==
    LET lines == TableLines(f)
        data == Tail(lines)
        kinds == [j \in 1..Len(lines[1]) |->
                     ColumnKind([i \in 1..Len(data) |-> data[i][j]])]
    IN  [isNone |-> FALSE,
         columns |-> DedupNames(lines[1]),
         rows |-> [i \in 1..Len(data) |->
                     [j \in 1..Len(lines[1]) |-> ReadCell(kinds[j], data[i][j])]]]

\* Drop the last row when its first cell is 'Balance'.
DropBalance(df) ==
    IF df.rows[Len(df.rows)][1] = StrVal(Balance)
    THEN [df EXCEPT !.rows = SubSeq(df.rows, 1, Len(df.rows) - 1)]
    ELSE df

RenameLabel(col) ==
    CASE col = Items -> PrepaymentItem
      [] col = InvoiceNumber -> Reference
      [] col = InvoiceAmount -> TotalAmount
      [] OTHER -> col

RenameColumns(df) ==
    [df EXCEPT !.columns = [j \in 1..Len(df.columns) |-> RenameLabel(df.columns[j])]]

\* The positions of the columns with the label.
RECURSIVE ColumnsLabelled(_, _, _)
ColumnsLabelled(df, label, j) ==
    IF j > Len(df.columns) THEN << >>
    ELSE (IF df.columns[j] = label THEN << j >> ELSE << >>)
         \o ColumnsLabelled(df, label, j + 1)

\* After the rename two columns are labelled 'Reference' (the header had
\* 'Invoice number' and 'Reference'): df['Reference'] is a frame and
\* pd.to_numeric raises TypeError.
ReferenceIsFrame(df) == Len(ColumnsLabelled(df, Reference, 1)) > 1

\* astype('Int64') raises TypeError on a float that is not a whole number.
ReferenceCastFails(df) ==
    /\ HasColumn(df, Reference)
    /\ \E i \in 1..Len(df.rows) :
          ~IsWhole(ToNumeric(df.rows[i][ColIndex(df, Reference)]))

ReferenceToInt64(v) == ToInt64(ToNumeric(v))

\* df['Reference'] = pd.to_numeric(...).astype('Int64')
ReferenceColumnToInt64(df) ==
    [df EXCEPT !.rows =
        [i \in 1..Len(df.rows) |->
            [j \in 1..Len(df.columns) |->
                IF df.columns[j] = Reference THEN ReferenceToInt64(df.rows[i][j])
                ELSE df.rows[i][j]]]]

ConvertReference(df) ==
    IF HasColumn(df, Reference)
    THEN ReferenceColumnToInt64(df)
    ELSE AddColumn(df, Reference, StrVal(NotAvailable))

MonthColumns(df) == SelectSeq(df.columns, IsMonthColumn)

MonthCell(v) == FillNa0(ToNumeric(v))

\* pd.to_numeric(...).fillna(0) on every month column.
CoerceMonths(df) ==
    [df EXCEPT !.rows =
        [i \in 1..Len(df.rows) |->
            [j \in 1..Len(df.columns) |->
                IF IsMonthColumn(df.columns[j]) THEN MonthCell(df.rows[i][j])
                ELSE df.rows[i][j]]]]

DefaultItem(df) ==
    IF HasColumn(df, PrepaymentItem) THEN df
    ELSE AddColumn(df, PrepaymentItem, StrVal(GenericItem))

load_prepayment_schedule(f) ==
    IF ~f.exists THEN LoadFailure("FileNotFoundError")
    ELSE IF Len(TableLines(f)) = 0 THEN LoadFailure("EmptyDataError")
    ELSE IF Len(TableLines(f)) = 1
         THEN LoadFailure("Exception")  \* iloc[-1, 0]: IndexError
    ELSE
      LET df1 == RenameColumns(DropBalance(ReadCsv(f))) IN
      IF ReferenceIsFrame(df1) \/ ReferenceCastFails(df1)
      THEN LoadFailure("Exception")  \* TypeError
      ELSE
        LET df2 == ConvertReference(df1) IN
        IF MonthColumns(df2) = << >> THEN LoadFailure("ValueError")
        ELSE [schedule_df |-> DefaultItem(CoerceMonths(df2)),
              month_columns |-> [isNone |-> FALSE, list |-> MonthColumns(df2)],
              branch |-> "return", raised |-> FALSE]

----------------------------------------------------------------------------
(* generate_accounting_entries                                             *)

\* The month field of '%Y-%m': 1[0-2], 0[1-9] or [1-9], nothing after it.
MonthFieldOK(mp) ==
    \/ Len(mp) = 1 /\ mp[1] \in AsciiDigits \ {"0"}
    \/ Len(mp) = 2 /\ AllIn(mp, AsciiDigits) /\ DigitsValue(mp) \in 1..12

\* datetime.strptime(s, '%Y-%m') returns (no ValueError): \d\d\d\d takes
\* any four decimal digits, and the year 0 is no date.
StrptimeOK(s) ==
    /\ Len(s) \in {6, 7}
    /\ AllIn(SubSeq(s, 1, 4), DecimalChars)
    /\ s[5] = "-"
    /\ MonthFieldOK(SubSeq(s, 6, Len(s)))
    /\ DigitsValue(SubSeq(s, 1, 4)) >= 1

ParsedYear(s) == DigitsValue(SubSeq(s, 1, 4))
ParsedMonth(s) == DigitsValue(SubSeq(s, 6, Len(s)))

\* %b in the C locale.
MonthAbbr(m) ==
    CASE m = 1 -> << "J", "a", "n" >> [] m = 2 -> << "F", "e", "b" >>
      [] m = 3 -> << "M", "a", "r" >> [] m = 4 -> << "A", "p", "r" >>
      [] m = 5 -> << "M", "a", "y" >> [] m = 6 -> << "J", "u", "n" >>
      [] m = 7 -> << "J", "u", "l" >> [] m = 8 -> << "A", "u", "g" >>
      [] m = 9 -> << "S", "e", "p" >> [] m = 10 -> << "O", "c", "t" >>
      [] m = 11 -> << "N", "o", "v" >> [] m = 12 -> << "D", "e", "c" >>

\* target_dt.strftime('%b-%y')
TargetMonthColName(s) ==
    MonthAbbr(ParsedMonth(s)) \o << "-" >> \o Pad2(ParsedYear(s) % 100)

IsLeap(y) == (y % 4 = 0 /\ y % 100 # 0) \/ y % 400 = 0

\* target_dt + relativedelta(day=31): the day is clamped to the month's last.
LastDay(y, m) ==
    IF m \in {4, 6, 9, 11} THEN 30
    ELSE IF m = 2 THEN (IF IsLeap(y) THEN 29 ELSE 28)
    ELSE 31

\* accounting_entry_date.strftime('%d/%m/%Y'): the C library writes the
\* year without leading zeros.
EntryDate(s) ==
    LET y == ParsedYear(s)
        m == ParsedMonth(s)
    IN  Pad2(LastDay(y, m)) \o << "/" >> \o Pad2(m) \o << "/" >> \o NatToStr(y)

\* The binary exponent of m / 5^p: the e with 5^p * 2^e <= m < 5^p * 2^(e+1).
RECURSIVE ExponentUp(_, _, _)
ExponentUp(m, p, e) ==
    IF Pow5(p) * Pow2(e + 1) <= m THEN ExponentUp(m, p, e + 1) ELSE e
RECURSIVE ExponentDown(_, _, _)
ExponentDown(m, p, j) ==
    IF m * Pow2(j) >= Pow5(p) THEN -j ELSE ExponentDown(m, p, j + 1)
BinaryExponent(m, p) ==
    IF m >= Pow5(p) THEN ExponentUp(m, p, 0) ELSE ExponentDown(m, p, 1)

\* Rounding a float to p decimals goes up in magnitude on the decimal tie
\* (10q + 5) / 10^(p+1).  Python rounds the exact value of the double,
\* which is the multiple of its last binary place nearest to the tie
\* m / (2 * 10^p), m = 2q + 1: with e the binary exponent of m / 5^p the
\* double is above the tie when the remainder of m * 2^(52-e) by 5^p is
\* more than half of 5^p, and when the remainder is 0 the double is the
\* tie and goes to the even neighbour.
TieRoundsUp(q, p) ==
    LET m == 2 * q + 1
        k == 52 - BinaryExponent(m, p)
        r == ((m % Pow5(p)) * ModPow2(k, Pow5(p))) % Pow5(p)
    IN  IF r = 0 THEN q % 2 = 1 ELSE 2 * r > Pow5(p)

\* The magnitude a / 10^d rounded to p decimals, as a count of 10^-p, for
\* d > p: the part cut off decides, and a decimal tie goes the way the
\* double lies.
RoundedMagnitude(a, d, p) ==
    LET s == Pow10(d - p)
        q == a \div s
        r == a % s
    IN  IF 2 * r < s THEN q
        ELSE IF 2 * r > s THEN q + 1
        ELSE IF TieRoundsUp(q, p) THEN q + 1
        ELSE q

\* The text of a string with tab, carriage return and line feed escaped,
\* as the repr of a Series prints it.
RECURSIVE Escaped(_)
Escaped(s) ==
    IF Len(s) = 0 THEN << >>
    ELSE (CASE s[1] = "\t" -> << "\\", "t" >>
            [] s[1] = "\r" -> << "\\", "r" >>
            [] s[1] = "\n" -> << "\\", "n" >>
            [] OTHER -> << s[1] >>) \o Escaped(Tail(s))

\* A float in the repr of a Series of objects: a place for the sign, six
\* decimals, the zeros at the end cut down to one.
SeriesFloat(n, d) ==
    LET sign == IF n < 0 THEN << "-" >> ELSE << " " >>
        r == IF d <= 6 THEN NumVal(Abs(n), d)
             ELSE NumVal(RoundedMagnitude(Abs(n), d, 6), 6)
    IN  sign \o FixedText(r.n, r.d)

\* A value in the repr of a Series of objects.
SeriesCell(v) ==
    CASE v.t = "float" -> SeriesFloat(v.n, v.d)
      [] v.t = "inf" -> IF v.n < 0 THEN << "-", "i", "n", "f" >>
                        ELSE << " ", "i", "n", "f" >>
      [] v.t = "nan" -> << " ", "N", "a", "N" >>
      [] v.t = "str" -> << " " >> \o Escaped(v.s)
      [] OTHER -> << " " >> \o ValueText(v)

\* display.max_colwidth
MaxColWidth == 50

\* A value of the Series cut to the width w and set to the right.
Justified(x, w) ==
    IF Len(x) > w THEN SubSeq(x, 1, w - 3) \o << ".", ".", "." >>
    ELSE [i \in 1..(w - Len(x)) |-> " "] \o x


RECURSIVE SeriesLines(_, _, _, _)
SeriesLines(label, texts, w, k) ==
    IF k > Len(texts) THEN << >>
    ELSE label \o << " ", " ", " " >> \o Justified(texts[k], w) \o << "\n" >>
         \o SeriesLines(label, texts, w, k + 1)

\* str() of the Series row.get() returns when the label is on more than
\* one column: a line for each cell, then the name (the row's index label)
\* and the dtype.
SeriesText(label, cells, name) ==
    LET texts == [k \in 1..Len(cells) |-> SeriesCell(cells[k])]
        lens == { Len(texts[k]) : k \in 1..Len(texts) }
        longest == CHOOSE x \in lens : \A y \in lens : y <= x
        w == IF longest < MaxColWidth THEN longest ELSE MaxColWidth
    IN  SeriesLines(label, texts, w, 1)
        \o << "N", "a", "m", "e", ":", " " >> \o IntToStr(name)
        \o << ",", " ", "d", "t", "y", "p", "e", ":", " ",
              "o", "b", "j", "e", "c", "t" >>

\* f'{prepayment_item}' with prepayment_item = row.get('Prepayment Item',
\* 'Unknown Item') for row i, whose index label is i - 1.
ItemText(df, i) ==
    LET js == ColumnsLabelled(df, PrepaymentItem, 1)
    IN  IF Len(js) = 0 THEN UnknownItem
        ELSE IF Len(js) = 1 THEN ValueText(df.rows[i][js[1]])
        ELSE SeriesText(PrepaymentItem,
                        [k \in 1..Len(js) |-> df.rows[i][js[k]]], i - 1)

\* pd.notna(raw_reference)
NotNa(v) == v.t \notin {"NA", "nan"}

\* int(raw_reference) raises: ValueError on a string that is no integer
\* literal, OverflowError on an infinite float.
IntRaises(v) == (v.t = "str" /\ ~IntLiteralOK(v.s)) \/ v.t = "inf"

\* int(x) of a finite float: the fraction is cut off.
Truncate(n, d) ==
    IF n < 0 THEN -((-n) \div Pow10(d)) ELSE n \div Pow10(d)

\* str(int(raw_reference)) if pd.notna(raw_reference) else 'N/A'
ReferenceStr(v) ==
    IF NotNa(v)
    THEN IntToStr(CASE v.t = "str" -> IntLiteralValue(v.s)
                    [] v.t = "float" -> Truncate(v.n, v.d)
                    [] OTHER -> v.n)
    ELSE NotAvailable

\* Posting amounts: a count of hundredths, or an infinity of the sign c.
Hundredths(c) == [k |-> "fin", c |-> c]
Infinite(sign) == [k |-> "inf", c |-> sign]

\* -x and abs(x)
Negate(a) == [a EXCEPT !.c = -a.c]
AbsAmount(a) == [a EXCEPT !.c = Abs(a.c)]

\* The negligible-amount threshold 0.005, in thousandths.
THRESHOLD == 5

\* 'if abs(monthly_amortization) > 0.005': "True" or "False" for a number,
\* the doubles comparing as the decimal numbers they are nearest to do and
\* nan being above nothing; "TypeError" for a cell that is no number, from
\* abs() of a string and from the truth value of pd.NA.
AmountTest(v) ==
    CASE v.t \in {"str", "NA"} -> "TypeError"
      [] v.t = "inf" -> "True"
      [] v.t = "nan" -> "False"
      [] OTHER ->
           IF IF v.d <= 3 THEN Abs(v.n) > THRESHOLD \div Pow10(3 - v.d)
              ELSE Abs(v.n) > THRESHOLD * Pow10(v.d - 3)
           THEN "True" ELSE "False"

\* round(x, 2) of a number.  Up to two decimals it is x.
Round2(v) ==
    IF v.t = "inf" THEN Infinite(v.n)
    ELSE IF v.d <= 2 THEN Hundredths(v.n * Pow10(2 - v.d))
    ELSE Hundredths((IF v.n < 0 THEN -1 ELSE 1)
                        * RoundedMagnitude(Abs(v.n), v.d, 2))

\* debit_amount = abs(round(monthly_amortization, 2))
DebitAmount(v) == AbsAmount(Round2(v))

DebitEntry(date, item, ref, amount) ==
    [Date |-> date, Description |-> DescriptionPrefix \o item,
     Reference |-> ref, Account |-> "EXP001", Amount |-> amount]

CreditEntry(date, item, ref, amount) ==
    [Date |-> date, Description |-> DescriptionPrefix \o item,
     Reference |-> ref, Account |-> "PRE001", Amount |-> Negate(amount)]

\* The two entries one row appends, none for a negligible amount; the row
\* is one on which nothing raises (RowError).
RowEntries(df, i, col, date) ==
    LET item == ItemText(df, i)
        ref == ReferenceStr(RowGet(df, i, Reference, NA))
        amt == RowGet(df, i, col, IntVal(0))
    IN  IF AmountTest(amt) = "True"
        THEN << DebitEntry(date, item, ref, DebitAmount(amt)),
                CreditEntry(date, item, ref, DebitAmount(amt)) >>
        ELSE << >>

\* The exception the body of the loop raises on row i, "none" when it
\* raises nothing: that of int(raw_reference), ValueError or, on an
\* infinite float, OverflowError; after it that of the test on the amount.
RowError(df, i, col) ==
    LET raw == RowGet(df, i, Reference, NA) IN
    IF NotNa(raw) /\ IntRaises(raw)
    THEN (IF raw.t = "inf" THEN "OverflowError" ELSE "ValueError")
    ELSE IF AmountTest(RowGet(df, i, col, IntVal(0))) = "TypeError"
         THEN "TypeError"
    ELSE "none"

\* The names of a call: the two arguments, bound to the objects of the
\* caller, and accounting_entries = [].
Locals(df, cols) ==
    [schedule_df |-> df, month_columns |-> cols, accounting_entries |-> << >>]

\* Mutant: the amount of the row is set to 0 in the frame once it is read,
\* to keep it from being posted again.
RowStep_ClearsAmount(env, i, col, date) ==
    [env EXCEPT
        !.accounting_entries = @ \o RowEntries(env.schedule_df, i, col, date),
        !.schedule_df.rows[i][ColIndex(env.schedule_df, col)] = IntVal(0)]

\* The body of the loop on a row i on which nothing raises: it reads the
\* row, a copy iterrows() hands out, and writes to one object, the list it
\* appends to.
RowStep(env, i, col, date) ==
    [env EXCEPT
        !.accounting_entries = @ \o RowEntries(env.schedule_df, i, col, date)]

\* The loop over schedule_df.iterrows() from row i on.  An exception
\* leaves the loop and the function: that of int() on the reference, or,
\* after it, that of the test on the amount.
RECURSIVE IterRows(_, _, _, _)
IterRows(env, col, date, i) ==
    IF i > Len(env.schedule_df.rows)
    THEN [outcome |-> "returned", env |-> env]
    ELSE IF RowError(env.schedule_df, i, col) # "none"
         THEN [outcome |-> RowError(env.schedule_df, i, col), env |-> env]
    ELSE IterRows(RowStep(env, i, col, date), col, date, i + 1)

\* Mutant: the ValueError of strptime is not caught.
InvalidFormat_Raises == [outcome |-> "ValueError", entries |-> << >>]

\* except ValueError: return []
InvalidFormat == [outcome |-> "returned", entries |-> << >>]

\* target_month_col_name not in month_columns: return []
MonthNotFound == [outcome |-> "returned", entries |-> << >>]

\* return accounting_entries
Returned(entries) == [outcome |-> "returned", entries |-> entries]

\* An exception leaves the function: the caller gets no list, whatever
\* was appended before.
Raised(exception) == [outcome |-> exception, entries |-> << >>]

InMonthColumns(col, cols) == \E k \in 1..Len(cols) : cols[k] = col

\* What the call gives back and the two objects of the caller as the call
\* leaves them.
CallEnd(value, env) ==
    [outcome |-> value.outcome, entries |-> value.entries,
     schedule_df |-> env.schedule_df, month_columns |-> env.month_columns]

generate_accounting_entries(df, cols, s) ==
    IF ~StrptimeOK(s) THEN CallEnd(InvalidFormat, Locals(df, cols))
    ELSE IF ~InMonthColumns(TargetMonthColName(s), cols.list)
         THEN CallEnd(MonthNotFound, Locals(df, cols))
    ELSE LET l == IterRows(Locals(df, cols), TargetMonthColName(s),
                           EntryDate(s), 1)
         IN  CallEnd(IF l.outcome = "returned"
                     THEN Returned(l.env.accounting_entries)
                     ELSE Raised(l.outcome),
                     l.env)
----------------------------------------------------------------------------
(* Inputs: CSV files and target periods                                    *)

T(a, b, c, d, e, f) == << a, b, c, d, e, f >>

Jan24 == T("J", "a", "n", "-", "2", "4")
Feb24 == T("F", "e", "b", "-", "2", "4")

Total == << "T", "o", "t", "a", "l" >>

\* Labels of the column that follows the key columns.
LabelSamples ==
    { Jan24, Total,
      T("D", "e", "c", "-", "9", "9"),
      T("X", "y", "z", "-", "2", "4"),
      << "A", "B", "C", "-", "2", "0", "2", "4" >>,
      T("J", "a", "-", "1", "2", "3"),
      T("A", "b", "-", "1", "-", "2"),
      T("J", "a", "n", "_", "2", "4"),
      T("J", "a", "n", "2", "4", "-"),
      T("-", "1", "2", "3", "4", "5"),
      T("J", "4", "n", "-", "2", "4"),
      T("J", "a", "n", "-", "2", "x"),
      T("J", "U+00E4", "n", "-", "2", "4"),
      T("J", "a", "n", "-", "2", "U+00B2") }

AllKeys == << Items, InvoiceNumber, InvoiceAmount >>

\* Key columns with the reference or the item column left out.
PartialKeys == { << Items, InvoiceAmount >>, << InvoiceNumber, InvoiceAmount >> }

Suffixes == { << >>, << Feb24 >> }

\* Headers of the tables of every length: the key columns, all or in part,
\* then a month column or none, with a month column after it or not.
Headers ==
    { AllKeys \o << l >> \o sfx : l \in { Jan24, Total }, sfx \in Suffixes }
    \cup { p \o << Jan24 >> \o sfx : p \in PartialKeys, sfx \in Suffixes }
    \cup { p \o << Total >> : p \in PartialKeys }

\* Headers of the short tables: the key columns and one more label; a label
\* twice, and a third time after the name its second column is given; an
\* empty label, alone and before the name it would be given; a label next
\* to the label it is renamed to.
LabelHeaders ==
    { AllKeys \o << l >> : l \in LabelSamples }
    \cup { AllKeys \o << Jan24, Jan24 >>,
           AllKeys \o << Jan24, Jan24 \o << ".", "1" >>, Jan24 >>,
           AllKeys \o << << >>, Feb24 >>,
           << << >>, UnnamedLabel(1), InvoiceNumber, Jan24 >>,
           << Items, InvoiceNumber, Reference, Jan24 >>,
           << Items, PrepaymentItem, InvoiceNumber, Jan24 >> }

\* An item row before it is laid out under a header: the cells of the key
\* columns and of the first and the later other columns.
ItemRow(item, ref, total, a1, a2) ==
    [item |-> item, ref |-> ref, total |-> total, a1 |-> a1, a2 |-> a2]

ItemRows ==
    { ItemRow(<< "I", "n", "s", "u", "r", "a", "n", "c", "e" >>,
              << "4", "6", "2", "4", "8" >>,
              << "1", "2", "0", "0", ".", "0", "0" >>,
              << "-", "1", "0", "0", ".", "0", "0" >>,
              << "0", ".", "0", "0", "6" >>),
      ItemRow(<< "R", "e", "n", "t" >>,
              << "N", "/", "A" >>,
              << >>,
              << "0", ".", "0", "0", "3" >>,
              << "-", "0", ".", "0", "0", "6" >>),
      ItemRow(<< >>,
              << >>,
              << "5", "0" >>,
              << "-", "0", ".", "0", "0", "5" >>,
              << "1", ".", "1", "3", "5" >>),
      ItemRow(<< "L", "i", "c", "e", "n", "c", "e" >>,
              << "1", "2", ".", "5" >>,
              << "x" >>,
              << "0", ".", "1", "2", "5" >>,
              << "a", "b", "c" >>),
      ItemRow(<< "0", "0", "7" >>,
              << "1", "e", "3" >>,
              << "N", "o", "n", "e" >>,
              << "i", "n", "f" >>,
              << "0", ".", "0", "0", "5", "1" >>),
      ItemRow(<< "1", "0", "1" >>,
              << "U+000B", "+", "5" >>,
              << " ", "5" >>,
              << >>,
              << ".", "5", "\f" >>) }

KeyLabels == { Items, InvoiceNumber, InvoiceAmount }

OtherRank(h, j) == Cardinality({ k \in 1..j : h[k] \notin KeyLabels })

CellFor(h, j, w) ==
    CASE h[j] = Items -> w.item
      [] h[j] = InvoiceNumber -> w.ref
      [] h[j] = InvoiceAmount -> w.total
      [] OTHER -> IF OtherRank(h, j) = 1 THEN w.a1 ELSE w.a2

Line(h, w) == [j \in 1..Len(h) |-> CellFor(h, j, w)]

\* A closing row: its first cell holds the word, the others a running total.
SummaryLine(h, word) ==
    [j \in 1..Len(h) |->
        IF j = 1 THEN word ELSE << "-", "5", "0", "0", ".", "0", "0" >>]

Trailers == { << >>, << Balance >>, << << "b", "a", "l", "a", "n", "c", "e" >> >> }

JunkLines == << << << "P", "r", "e", "p", "a", "y", "m", "e", "n", "t", "s" >> >>,
               << << >> >> >>

ItemRowSeqs == UNION { [1..n -> ItemRows] : n \in 0..MaxRows }

\* Tables of no row and of one row.
ShortTables == { << >> } \cup { << w >> : w \in ItemRows }

TableFile(h, items, trailer) ==
    [exists |-> TRUE,
     lines |-> JunkLines \o << h >>
               \o [i \in 1..Len(items) |-> Line(h, items[i])]
               \o [i \in 1..Len(trailer) |-> SummaryLine(h, trailer[i])]]

\* The file with a line put in before its line at position pos.
InsertLine(f, pos, l) ==
    [f EXCEPT !.lines = SubSeq(f.lines, 1, pos - 1) \o << l >>
                        \o SubSeq(f.lines, pos, Len(f.lines))]

\* Tables with an empty line before the header or a line of spaces after it.
BlankLineFiles ==
    { InsertLine(TableFile(AllKeys \o << Jan24, Feb24 >>, items, << Balance >>),
                 3, << << >> >>) : items \in ShortTables }
    \cup
    { InsertLine(TableFile(AllKeys \o << Jan24, Feb24 >>, items, << Balance >>),
                 4, << << " ", " " >> >>) : items \in ShortTables }

NoFile == [exists |-> FALSE, lines |-> << >>]

Files ==
    { NoFile,
      [exists |-> TRUE, lines |-> << >>],
      [exists |-> TRUE, lines |-> JunkLines] }
    \cup { TableFile(h, items, tr) :
             h \in Headers, items \in ItemRowSeqs, tr \in Trailers }
    \cup { TableFile(h, items, tr) :
             h \in LabelHeaders, items \in ShortTables, tr \in Trailers }
    \cup BlankLineFiles

\* Target periods; the second has its year in fullwidth digits.
TargetPeriods ==
    { << "2", "0", "2", "4", "-", "0", "1" >>,
      << "U+FF12", "U+FF10", "U+FF12", "U+FF14", "-", "0", "2" >>,
      << "2", "0", "2", "4", "-", "2" >>,
      << "0", "0", "9", "9", "-", "1", "2" >>,
      << "2", "0", "2", "4", "/", "0", "5" >>,
      << "2", "0", "3", "0", "-", "0", "1" >> }

----------------------------------------------------------------------------
(* The program: main loads once, then entries are generated for a target   *)
(* period; the generator may be called again on the same loaded frame.     *)

NoResult == [outcome |-> "none", entries |-> << >>]

Init ==
    /\ file = NoFile
    /\ schedule_df = NoneDF
    /\ month_columns = NoneCols
    /\ load_branch = "none"
    /\ snapshot = [schedule_df |-> NoneDF, month_columns |-> NoneCols]
    /\ target_month_str = << >>
    /\ result = NoResult
    /\ first = [target |-> << >>, result |-> NoResult]
    /\ repeated = FALSE
    /\ pc = "start"

\* snapshot keeps the frame and the month columns as the loader returned
\* them.
Load(f) ==
    /\ pc = "start"
    /\ \E r \in { load_prepayment_schedule(f) } :
         /\ file' = f
         /\ schedule_df' = r.schedule_df
         /\ month_columns' = r.month_columns
         /\ load_branch' = r.branch
         /\ snapshot' = [schedule_df |-> r.schedule_df,
                         month_columns |-> r.month_columns]
         /\ pc' = IF r.raised THEN "load_raised"
                  ELSE IF r.schedule_df.isNone \/ r.month_columns.isNone
                       THEN "load_failed"
                  ELSE "loaded"
    /\ UNCHANGED << target_month_str, result, first, repeated >>

\* A call of the generator on the loaded frame.  first keeps the target
\* period and the outcome of the first call on the frame, and repeated
\* tells that this call is a later one with the same target period.
Generate(s) ==
    /\ pc \in {"loaded", "generated"}
    /\ \E r \in { generate_accounting_entries(schedule_df, month_columns, s) } :
         /\ result' = [outcome |-> r.outcome, entries |-> r.entries]
         /\ schedule_df' = r.schedule_df
         /\ month_columns' = r.month_columns
         /\ first' = IF pc = "loaded"
                     THEN [target |-> s,
                           result |-> [outcome |-> r.outcome,
                                       entries |-> r.entries]]
                     ELSE first
    /\ target_month_str' = s
    /\ repeated' = (pc = "generated" /\ s = first.target)
    /\ pc' = "generated"
    /\ UNCHANGED << file, load_branch, snapshot >>

LoadAny == pc = "start" /\ \E f \in Files : Load(f)

GenerateAny == \E s \in TargetPeriods : Generate(s)

Next == LoadAny \/ GenerateAny

Spec == Init /\ [][Next]_vars

----------------------------------------------------------------------------
(* Properties                                                              *)

Loaded == pc \in {"loaded", "generated"}
Called == pc = "generated"

\* The target period parsed and its label is one of the month columns.
TargetPresent ==
    /\ StrptimeOK(target_month_str)
    /\ InMonthColumns(TargetMonthColName(target_month_str), month_columns.list)

\* The header line and the data lines of the file that was read.
HeaderOf(f) == TableLines(f)[1]
DataLines(f) == Len(TableLines(f)) - 1
InHeader(f, label) == \E j \in 1..Len(HeaderOf(f)) : HeaderOf(f)[j] = label

\* The shape the specification gives month columns: three letters, one
\* dash, two digits.
SpecMonthShape(col) ==
    /\ Len(col) = 6
    /\ Cardinality({ i \in 1..Len(col) : col[i] = "-" }) = 1
    /\ col[4] = "-"
    /\ \A i \in 1..3 : col[i] \in AlphaChars
    /\ \A i \in 5..6 : col[i] \in DigitChars

\* The shape the specification gives target periods: YYYY-MM.
SpecPeriodShape(s) ==
    /\ Len(s) = 7
    /\ \A i \in 1..4 : s[i] \in DecimalChars
    /\ s[5] = "-"
    /\ \A i \in 6..7 : s[i] \in DecimalChars

\* The sum of two amounts as floats add: opposite infinities give nan.
NanAmount == [k |-> "nan", c |-> 0]
Plus(a, b) ==
    IF a.k = "nan" \/ b.k = "nan" THEN NanAmount
    ELSE IF a.k = "fin" /\ b.k = "fin" THEN Hundredths(a.c + b.c)
    ELSE IF a.k = "fin" THEN b
    ELSE IF b.k = "fin" THEN a
    ELSE IF a.c = b.c THEN a
    ELSE NanAmount

\* C1: the returned list is made of (debit, credit) pairs; the debit amount
\* is strictly positive, the credit amount is its exact negation so that
\* the two sum to zero, the debit account EXP001 differs from the credit
\* account PRE001, and Date, Description and Reference agree in the pair.
C1_BalancedPairs ==
    LET e == result.entries IN
    /\ Len(e) % 2 = 0
    /\ \A k \in 1..(Len(e) \div 2) :
          LET d == e[2 * k - 1]
              c == e[2 * k]
          IN  /\ d.Amount.c > 0
              /\ c.Amount = Negate(d.Amount)
              /\ Plus(d.Amount, c.Amount) = Hundredths(0)
              /\ d.Account = "EXP001"
              /\ c.Account = "PRE001"
              /\ d.Account # c.Account
              /\ d.Date = c.Date
              /\ d.Description = c.Description
              /\ d.Reference = c.Reference

\* C2 as stated: a target period that is not of the shape YYYY-MM yields a
\* failure outcome, a well-formed period whose label is no month column
\* yields an empty successful result, and the two differ.
C2_MalformedIsFailure ==
    Called =>
        IF ~SpecPeriodShape(target_month_str)
        THEN result.outcome # "returned"
        ELSE (StrptimeOK(target_month_str) /\ ~TargetPresent)
                => result = [outcome |-> "returned", entries |-> << >>]

\* C2 amended: a target period strptime rejects and a parsed period whose
\* label is no month column both return the empty list, so the returned
\* value does not tell the two apart.
C2_BothReturnEmpty ==
    (Called /\ ~TargetPresent)
        => result = [outcome |-> "returned", entries |-> << >>]

\* The generator was called with '2024/05' on a loaded frame with rows.
C2_Witness ==
    /\ Called
    /\ target_month_str = << "2", "0", "2", "4", "/", "0", "5" >>
    /\ Len(schedule_df.rows) > 0
    /\ result.entries = << >>

\* The amounts of the target month, one per record.
TargetAmounts ==
    [i \in 1..Len(schedule_df.rows) |->
        RowGet(schedule_df, i, TargetMonthColName(target_month_str), IntVal(0))]

\* A magnitude at or below 0.005.
SpecNegligible(v) ==
    /\ v.t # "inf"
    /\ IF v.d <= 3 THEN Abs(v.n) * Pow10(3 - v.d) <= THRESHOLD
       ELSE Abs(v.n) <= THRESHOLD * Pow10(v.d - 3)

\* The magnitude of a number.
Magnitude(v) == [v EXCEPT !.n = Abs(v.n)]

\* The debit amounts the specification asks for: none for a magnitude at or
\* below 0.005, else the magnitude rounded to two decimals.
RECURSIVE SpecDebits(_, _)
SpecDebits(amts, i) ==
    IF i > Len(amts) THEN << >>
    ELSE (IF SpecNegligible(amts[i]) THEN << >>
          ELSE << Round2(Magnitude(amts[i])) >>) \o SpecDebits(amts, i + 1)

IsDebit(e) == e.Account = "EXP001"

DebitAmountsOf(entries) ==
    LET ds == SelectSeq(entries, IsDebit)
    IN  [k \in 1..Len(ds) |-> ds[k].Amount]

\* C3: for a target month of the schedule, a record whose amount is at or
\* below 0.005 in magnitude gets no posting, and every other record gets a
\* pair whose debit is the magnitude rounded to two decimals.
C3_ThresholdAndRounding ==
    (Called /\ TargetPresent)
        => DebitAmountsOf(result.entries) = SpecDebits(TargetAmounts, 1)

\* C4: a column is a month column exactly when it has the shape of three
\* letters, a dash and two digits, and loading fails when there is none.
C4_MonthColumnShape ==
    /\ Loaded =>
          /\ \A j \in 1..Len(schedule_df.columns) :
                InMonthColumns(schedule_df.columns[j], month_columns.list)
                    <=> SpecMonthShape(schedule_df.columns[j])
          /\ month_columns.list # << >>
    /\ load_branch = "ValueError" =>
          \A j \in 1..Len(HeaderOf(file)) : ~SpecMonthShape(HeaderOf(file)[j])

\* C5: without a reference or an item column loading fills the field with
\* its default, and the generator then returns without a fault, every
\* posting carrying the reference 'N/A' when the reference column is absent.
C5_DefaultsAreSafe ==
    (Loaded /\ (~InHeader(file, InvoiceNumber) \/ ~InHeader(file, Items)))
        => /\ HasColumn(schedule_df, Reference)
           /\ HasColumn(schedule_df, PrepaymentItem)
           /\ Called =>
                /\ result.outcome = "returned"
                /\ ~InHeader(file, InvoiceNumber) =>
                      \A k \in 1..Len(result.entries) :
                          result.entries[k].Reference = NotAvailable

\* The reference cell of data line i of the file.
ReferenceCell(f, i) ==
    TableLines(f)[i + 1][CHOOSE j \in 1..Len(HeaderOf(f)) :
                             HeaderOf(f)[j] = InvoiceNumber]

\* C6: no reference cell makes loading fail; a numeric cell is stored as a
\* whole number and rendered without a decimal point, any other cell is
\* rendered as 'N/A'.
C6_ReferenceCoercion ==
    /\ (pc = "load_failed" /\ file.exists /\ DataLines(file) >= 1)
          => load_branch = "ValueError"
    /\ (Loaded /\ InHeader(file, InvoiceNumber)) =>
          \A i \in 1..Len(schedule_df.rows) :
              LET v == RowGet(schedule_df, i, Reference, NA) IN
              IF IsNumericText(ReferenceCell(file, i))
              THEN /\ v.t = "int"
                   /\ \A k \in 1..Len(ReferenceStr(v)) : ReferenceStr(v)[k] # "."
              ELSE ReferenceStr(v) = NotAvailable

\* Files that fail in the three ways the specification names.
FailureProbes ==
    { NoFile,
      [exists |-> TRUE, lines |-> << >>],
      TableFile(<< Items, InvoiceAmount, Total >>,
                [i \in 1..1 |-> CHOOSE w \in ItemRows : TRUE], << >>) }

ReturnOf(r) == << r.schedule_df, r.month_columns >>

\* C7 as stated: the returned value of a failed load identifies the failure
\* condition, so two loads that fail for different reasons return
\* different values.
C7_FailureIsTagged ==
    pc = "load_failed" =>
        \A g \in FailureProbes :
            load_prepayment_schedule(g).branch # load_branch
                => ReturnOf(load_prepayment_schedule(g))
                       # << schedule_df, month_columns >>

\* No column of the file's header passes the loader's month test.
NoMonthColumn(f) ==
    \A j \in 1..Len(HeaderOf(f)) :
        ~IsMonthColumn(RenameLabel(DedupNames(HeaderOf(f))[j]))

\* C7 amended: a source that is absent, empty or without month columns
\* makes the loader return the same untagged (None, None) pair, and no
\* exception leaves the loader.
C7_FailureIsNonePair ==
    /\ pc # "load_raised"
    /\ (pc # "start" /\ (\/ ~file.exists
                         \/ Len(TableLines(file)) = 0
                         \/ DataLines(file) >= 1 /\ NoMonthColumn(file)))
          => /\ pc = "load_failed"
             /\ schedule_df = NoneDF
             /\ month_columns = NoneCols

\* A table with rows and no month column was loaded: the ValueError clause.
C7_Witness ==
    /\ pc = "load_failed"
    /\ load_branch = "ValueError"
    /\ DataLines(file) >= 2

\* C8: a table of two junk lines, a header with a month column, N item rows
\* and a last row starting with 'Balance' loads as N records; a last row
\* starting with anything else is kept.
C8_BalanceRowDropped ==
    (/\ pc # "start"
     /\ file.exists
     /\ DataLines(file) >= 1
     /\ \E j \in 1..Len(HeaderOf(file)) : SpecMonthShape(HeaderOf(file)[j]))
        => /\ Loaded
           /\ Len(schedule_df.rows) =
                 IF TableLines(file)[Len(TableLines(file))][1] = Balance
                 THEN DataLines(file) - 1
                 ELSE DataLines(file)

\* C9: after any sequence of calls of the generator, whatever their target
\* periods, the loaded frame and the month-column list are what they were
\* after loading, and a later call with the target period of the first
\* call returns what the first call returned.
C9_SnapshotUnchanged ==
    Called =>
        /\ schedule_df = snapshot.schedule_df
        /\ month_columns = snapshot.month_columns
        /\ repeated => result = first.result

\* A later call on a frame had the target period of the first call and
\* returned postings for two records.
C9_Witness ==
    /\ Called
    /\ repeated
    /\ result.outcome = "returned"
    /\ Len(result.entries) >= 4
    /\ Len(schedule_df.rows) >= 2

\* Description and account of the postings the specification asks for, in
\* record order, the debit before the credit.
RECURSIVE SpecPostings(_, _)
SpecPostings(amts, i) ==
    IF i > Len(amts) THEN << >>
    ELSE LET d == DescriptionPrefix \o ItemText(schedule_df, i)
         IN  (IF SpecNegligible(amts[i]) THEN << >>
              ELSE << << d, "EXP001" >>, << d, "PRE001" >> >>)
             \o SpecPostings(amts, i + 1)

\* C10: for a target month of the schedule the returned list holds two
\* entries for each record above the threshold and none for the others, in
\* record order, the debit entry right before the credit entry.
C10_RecordOrder ==
    (Called /\ TargetPresent)
        => [k \in 1..Len(result.entries) |->
               << result.entries[k].Description, result.entries[k].Account >>]
           = SpecPostings(TargetAmounts, 1)

====
